---- MODULE Spec2Model ----
(***************************************************************************)
(* Model of the telemetry provider lifecycle of app/otel.go (the           *)
(* definitions of lines 416-1237): resource resolution, the bootstrap      *)
(* sequence of NewTelemetryProvider and the coordinated Shutdown.          *)
(*                                                                         *)
(* Strings are TLA+ strings; Len and SubSeq act on them as len() and       *)
(* slicing do in Go.  A Go error value is a sequence of messages, the      *)
(* outermost first (fmt.Errorf with %w prepends one message to the chain); *)
(* the empty sequence is the nil error.                                    *)
(***************************************************************************)
EXTENDS Integers, Sequences, FiniteSets, TLC

(***************************************************************************)
(* Bounds of the model.                                                    *)
(***************************************************************************)
\* number of key=value pairs in OTEL_RESOURCE_ATTRIBUTES
MaxExtraAttrs == 1
\* number of Shutdown calls made on one handle
MaxShutdownCalls == 3

\* a sample ratio is a multiple of 1/RateDen; trace ids are 0..RateDen-1
RateDen == 4

\* spans started in one run
MaxSpans == 3

\* the batch processors, scaled down: the queue holds QueueSize items (2048
\* in the source), an export batch BatchSize (512 in the source)
QueueSize == 3
BatchSize == 2

\* items emitted in one run, over both signals
MaxEmits == 4

\* the counter is recorded on up to a sum of MaxRecorded; a reader collects
\* on its own up to MaxCollects times
MaxRecorded == 2
MaxCollects == 2

\* goroutines that hold the handle and may call Shutdown
Callers == {1, 2}

nil == <<>>

(***************************************************************************)
(* The process environment.  One record field per environment variable     *)
(* the modelled attributes read; "" is an unset (or empty) variable.        *)
(*   hostname : result of os.Hostname(), <<>> when it returns an error      *)
(*   cgroup   : for the first line of /proc/self/cgroup that contains       *)
(*              "/docker/", the text that follows it; <<>> when the file    *)
(*              cannot be read or has no such line                          *)
(*   OTEL_RESOURCE_ATTRIBUTES : the comma separated key=value pairs         *)
(***************************************************************************)
ShortContainerID == "abc123"
LongContainerID == "0123456789abcdef0123"

ExtraAttrPairs ==
    [key : {"service.name", "custom.tag"}, value : {"", "from-attrs"}]

Range(q) == {q[k] : k \in 1..Len(q)}

RECURSIVE SeqsUpTo(_, _)
SeqsUpTo(S, n) ==
    IF n = 0 THEN {<<>>}
    ELSE LET shorter == SeqsUpTo(S, n - 1)
         IN  shorter \cup {Append(s, x) : s \in {q \in shorter : Len(q) = n - 1}, x \in S}

Environments ==
    [SERVICE_NAME             : {"", "checkout"},
     OTEL_SERVICE_NAME        : {"", "checkout-otel"},
     SERVICE_INSTANCE_ID      : {"", "instance-env"},
     OTEL_SERVICE_INSTANCE_ID : {"", "instance-otel"},
     CONTAINER_ID             : {"", ShortContainerID, LongContainerID},
     K8S_POD_UID              : {"", "pod-uid-1"},
     POD_UID                  : {""},
     SERVICE_TEAM             : {"", "team-env"},
     TEAM                     : {"", "team-alt"},
     OTEL_RESOURCE_ATTRIBUTES : SeqsUpTo(ExtraAttrPairs, MaxExtraAttrs),
     hostname                 : {<<>>, <<"host-1">>},
     cgroup                   : {<<>>, <<ShortContainerID>>, <<LongContainerID>>}]

\* identifiers crypto/rand can produce in generateUUID
RandomIDs == {"uuid-1"}

(***************************************************************************)
(* Config: the fields that feed the modelled resource attributes, the      *)
(* endpoints, the sample ratio (SampleRate/RateDen) and the toggles.        *)
(* NoConfig is the nil *Config, ZeroConfig the zero value Config{}.         *)
(***************************************************************************)
NoConfig == [isNil |-> TRUE]

Configs ==
    [isNil             : {FALSE},
     ServiceName       : {"", "checkout-explicit"},
     ServiceInstanceID : {"", "instance-explicit"},
     ServiceTeam       : {"", "team-explicit"},
     EnablePrometheus  : BOOLEAN,
     TraceEndpoint     : {"tempo:4318"},
     MetricsEndpoint   : {"mimir:4318"},
     LogsEndpoint      : {"loki:4318"},
     SampleRate        : {RateDen},
     InsecureMode      : {TRUE}]

ZeroConfig ==
    [isNil |-> FALSE, ServiceName |-> "", ServiceInstanceID |-> "", ServiceTeam |-> "",
     EnablePrometheus |-> FALSE, TraceEndpoint |-> "", MetricsEndpoint |-> "",
     LogsEndpoint |-> "", SampleRate |-> 0, InsecureMode |-> FALSE]

(***************************************************************************)
(* Environment lookup helpers.                                             *)
(***************************************************************************)
getServiceName(e) ==
    IF e.SERVICE_NAME # "" THEN e.SERVICE_NAME
    ELSE IF e.OTEL_SERVICE_NAME # "" THEN e.OTEL_SERVICE_NAME
    ELSE "otel-lgtm-api"

getServiceInstanceID(e) ==
    IF e.SERVICE_INSTANCE_ID # "" THEN e.SERVICE_INSTANCE_ID
    ELSE IF e.OTEL_SERVICE_INSTANCE_ID # "" THEN e.OTEL_SERVICE_INSTANCE_ID
    ELSE ""

getServiceTeam(e) ==
    IF e.SERVICE_TEAM # "" THEN e.SERVICE_TEAM
    ELSE IF e.TEAM # "" THEN e.TEAM
    ELSE ""

getK8sPodUID(e) ==
    IF e.K8S_POD_UID # "" THEN e.K8S_POD_UID
    ELSE IF e.POD_UID # "" THEN e.POD_UID
    ELSE ""

\* s[:n] panics when n exceeds len(s)
SlicePanics(s, n) == Len(s) < n
Slice(s, n) == SubSeq(s, 1, n)

getContainerIDPanics(e) ==
    /\ e.CONTAINER_ID = ""
    /\ e.cgroup # <<>>
    /\ SlicePanics(e.cgroup[1], 12)

getContainerID(e) ==
    IF e.CONTAINER_ID # "" THEN e.CONTAINER_ID
    ELSE IF e.cgroup # <<>> THEN Slice(e.cgroup[1], 12)
    ELSE ""

generateInstanceIDPanics(e) ==
    /\ e.SERVICE_INSTANCE_ID = ""
    /\ IF getContainerIDPanics(e) THEN TRUE
       ELSE getContainerID(e) # "" /\ SlicePanics(getContainerID(e), 12)

\* generateInstanceID with the hostname consulted before the pod UID
generateInstanceID_HostnameFirst(e, uuid) ==
    IF e.SERVICE_INSTANCE_ID # "" THEN e.SERVICE_INSTANCE_ID
    ELSE IF getContainerID(e) # "" THEN Slice(getContainerID(e), 12)
    ELSE IF e.hostname # <<>> THEN e.hostname[1]
    ELSE IF getK8sPodUID(e) # "" THEN getK8sPodUID(e)
    ELSE uuid

generateInstanceID(e, uuid) ==
    IF e.SERVICE_INSTANCE_ID # "" THEN e.SERVICE_INSTANCE_ID
    ELSE IF getContainerID(e) # "" THEN Slice(getContainerID(e), 12)
    ELSE IF getK8sPodUID(e) # "" THEN getK8sPodUID(e)
    ELSE IF e.hostname # <<>> THEN e.hostname[1]
    ELSE uuid

DefaultConfig(e) ==
    [isNil             |-> FALSE,
     ServiceName       |-> getServiceName(e),
     ServiceInstanceID |-> getServiceInstanceID(e),
     ServiceTeam       |-> getServiceTeam(e),
     EnablePrometheus  |-> TRUE,
     TraceEndpoint     |-> "http://localhost:4318/v1/traces",
     MetricsEndpoint   |-> "http://localhost:4318/v1/metrics",
     LogsEndpoint      |-> "http://localhost:4318/v1/logs",
     SampleRate        |-> RateDen,
     InsecureMode      |-> TRUE]

(***************************************************************************)
(* Resources.  An attribute list is a sequence of key/value records; a     *)
(* Resource is a function from its keys to their values.                   *)
(***************************************************************************)
KV(k, v) == [key |-> k, value |-> v]

EmptyResource == [k \in {} |-> ""]

\* resource.Merge(a, b): on a common key the value of b wins
Merge(a, b) ==
    [k \in (DOMAIN a) \cup (DOMAIN b) |-> IF k \in DOMAIN b THEN b[k] ELSE a[k]]

\* resource.NewSchemaless(attrs...): for a repeated key the last value wins
RECURSIVE NewSchemaless(_)
NewSchemaless(attrs) ==
    IF attrs = <<>> THEN EmptyResource
    ELSE LET a == attrs[Len(attrs)]
         IN  Merge(NewSchemaless(SubSeq(attrs, 1, Len(attrs) - 1)),
                   [k \in {a.key} |-> a.value])

\* the loop "Filter out empty attributes"
RECURSIVE FilterEmpty(_)
FilterEmpty(attrs) ==
    IF attrs = <<>> THEN <<>>
    ELSE LET rest == FilterEmpty(Tail(attrs))
         IN  IF Head(attrs).value # "" THEN <<Head(attrs)>> \o rest ELSE rest

\* the detector of resource.WithFromEnv(): the pairs of
\* OTEL_RESOURCE_ATTRIBUTES, then service.name from OTEL_SERVICE_NAME
WithFromEnv(e) ==
    Merge(NewSchemaless(e.OTEL_RESOURCE_ATTRIBUTES),
          IF e.OTEL_SERVICE_NAME # ""
          THEN NewSchemaless(<<KV("service.name", e.OTEL_SERVICE_NAME)>>)
          ELSE EmptyResource)

\* the detectors WithTelemetrySDK, WithProcess, WithOS, WithContainer and
\* WithHost, by one attribute of the SDK, of the OS and of the host; none of
\* them supplies a key that a Config field supplies
WithDetectors(e) ==
    Merge(NewSchemaless(<<KV("telemetry.sdk.language", "go"),
                          KV("os.type", "linux")>>),
          IF e.hostname # <<>>
          THEN NewSchemaless(<<KV("host.name", e.hostname[1])>>)
          ELSE EmptyResource)

resourceAttributes(cfg, e, uuid) ==
    LET instanceID  == IF cfg.ServiceInstanceID = ""
                       THEN generateInstanceID(e, uuid)
                       ELSE cfg.ServiceInstanceID
        serviceTeam == IF cfg.ServiceTeam = ""
                       THEN getServiceTeam(e)
                       ELSE cfg.ServiceTeam
    IN  <<KV("service.name", cfg.ServiceName),
          KV("service.instance.id", instanceID),
          KV("telemetry.sdk.name", "opentelemetry"),
          KV("container.id", getContainerID(e)),
          KV("k8s.pod.uid", getK8sPodUID(e)),
          KV("service.team", serviceTeam)>>

createResourcePanics(cfg, e) ==
    IF cfg.ServiceInstanceID = "" /\ generateInstanceIDPanics(e) THEN TRUE
    ELSE getContainerIDPanics(e)

\* resource.New with the environment detector ahead of the attribute list
createResource_EnvFirst(cfg, e, uuid) ==
    Merge(Merge(WithFromEnv(e),
                NewSchemaless(FilterEmpty(resourceAttributes(cfg, e, uuid)))),
          WithDetectors(e))

\* resource.New merges the detectors in the order of its options, a later
\* one overriding an earlier one
createResource(cfg, e, uuid) ==
    Merge(Merge(NewSchemaless(FilterEmpty(resourceAttributes(cfg, e, uuid))),
                WithFromEnv(e)),
          WithDetectors(e))

(***************************************************************************)
(* Errors.                                                                 *)
(***************************************************************************)
\* fmt.Errorf("<msg>: %w", err)
Wrap(msg, err) == <<msg>> \o err

\* err.Error(): the messages of the chain joined by ": "
RECURSIVE ErrorText(_)
ErrorText(err) ==
    IF Len(err) <= 1 THEN err
    ELSE <<Head(err), ": ">> \o ErrorText(Tail(err))

\* the %v rendering of a []error: "[e1 e2 ...]"
RECURSIVE JoinErrors(_)
JoinErrors(errors) ==
    IF errors = <<>> THEN <<>>
    ELSE IF Len(errors) = 1 THEN ErrorText(Head(errors))
    ELSE ErrorText(Head(errors)) \o <<" ">> \o JoinErrors(Tail(errors))

FormatErrors(errors) == <<"[">> \o JoinErrors(errors) \o <<"]">>

(***************************************************************************)
(* Shutdown hooks: the Shutdown methods of the three SDK providers, named  *)
(* by their signal.  What a hook returns is decided by the SDK and the     *)
(* backend: nil or an error.                                               *)
(***************************************************************************)
Hooks == {"trace", "metric", "log"}

HookError(h) ==
    CASE h = "trace"  -> <<"tracer provider shutdown failed">>
      [] h = "metric" -> <<"meter provider shutdown failed">>
      [] h = "log"    -> <<"logger provider shutdown failed">>

HookResults(h) == {nil, HookError(h)}

(***************************************************************************)
(* State.                                                                  *)
(***************************************************************************)
VARIABLES
    env,        \* the process environment
    config,     \* the *Config the caller passes to NewTelemetryProvider
    pc,         \* position of the NewTelemetryProvider call
    tp,         \* the TelemetryProvider under construction / returned
    ret,        \* what NewTelemetryProvider returned: (provider, err)
    hookCalls,  \* per hook, how often it has been invoked in total
    calls,      \* per caller, its current (or last) Shutdown call
    started,    \* Shutdown calls started so far
    completed,  \* Shutdown calls that have returned so far
    validAttributes, \* createResource's filtered attribute list
    accessed,   \* the last GetTracer / GetMeter / GetLogger call and its result
    spans,      \* the spans started so far
    pipes,      \* per batched signal, its processor: queue, batch, exports
    metrics,    \* the instrument, the aggregate of each reader, its reports
    globals     \* the process-wide providers and propagator of package otel

vars == <<env, config, pc, tp, ret, hookCalls, calls, started, completed,
          validAttributes, accessed, spans, pipes, metrics, globals>>

\* the batched signals
Signals == {"trace", "log"}

\*   queue      : the items waiting in the processor's queue, oldest first
\*   batch      : the items the trace worker has taken off the queue
\*   exported   : the batches handed to the exporter, in order
\*   dropped    : the items refused at emission
\*   overflowed : the queued items overwritten by a later emission
\*   emitted    : the number of items emitted; an item is named by its number
\*   last       : the last operation on the processor
\*   failed     : the batches (by position in exported) whose export failed
NoPipe ==
    [queue |-> <<>>, batch |-> <<>>, exported |-> <<>>, dropped |-> {},
     overflowed |-> {}, emitted |-> 0, last |-> "none", failed |-> {}]

\* the metric readers; the instrument is one counter
ReaderKinds == {"prometheus", "periodic"}

\*   recorded : the sum of what was recorded on the counter
\*   agg      : per reader, the sum its own aggregation holds
\*   reported : per reader, the sums it reported, in order
\*   exports  : the collections that went to the OTLP exporter, by cause
NoMetrics ==
    [recorded |-> 0, agg |-> [r \in ReaderKinds |-> 0],
     reported |-> [r \in ReaderKinds |-> <<>>], exports |-> <<>>]

\* package otel starts with its default (no-op, delegating) globals
NoGlobals ==
    [TracerProvider |-> "default", MeterProvider |-> "default",
     LoggerProvider |-> "default", TextMapPropagator |-> "default"]

NoAccess == [kind |-> "none", result |-> "none", during |-> "none"]

NoCall ==
    [pc |-> "idle", i |-> 0, errors |-> <<>>, invoked |-> <<>>, ret |-> nil,
     afterClosed |-> FALSE]

InitLifecycle ==
    /\ pc = "start"
    /\ tp = [Config |-> NoConfig, Resource |-> EmptyResource, hasResource |-> FALSE,
             TracerProvider |-> "nil", MeterProvider |-> "nil",
             LoggerProvider |-> "nil", readers |-> <<>>, shutdownFuncs |-> <<>>,
             traceEndpoint |-> "", metricsEndpoint |-> "", logsEndpoint |-> "",
             samplerRatio |-> 0, traceTransport |-> "none",
             metricsTransport |-> "none", logsTransport |-> "none",
             bound |-> [h \in Hooks |-> <<>>]]
    /\ ret = [provider |-> "none", err |-> nil]
    /\ hookCalls = [h \in Hooks |-> 0]
    /\ calls = [t \in Callers |-> NoCall]
    /\ started = 0
    /\ completed = 0
    /\ validAttributes = <<>>
    /\ accessed = NoAccess
    /\ spans = <<>>
    /\ pipes = [sig \in Signals |-> NoPipe]
    /\ metrics = NoMetrics
    /\ globals = NoGlobals

\* the environments and configs of the lifecycle specification: the resource
\* inputs vary over the cases that change the course of the bootstrap
BaseEnv ==
    [SERVICE_NAME |-> "", OTEL_SERVICE_NAME |-> "", SERVICE_INSTANCE_ID |-> "",
     OTEL_SERVICE_INSTANCE_ID |-> "", CONTAINER_ID |-> "", K8S_POD_UID |-> "",
     POD_UID |-> "", SERVICE_TEAM |-> "", TEAM |-> "",
     OTEL_RESOURCE_ATTRIBUTES |-> <<>>, hostname |-> <<"host-1">>, cgroup |-> <<>>]

LifecycleEnvs ==
    {[BaseEnv EXCEPT !.SERVICE_NAME = "checkout"],
     [BaseEnv EXCEPT !.cgroup = <<ShortContainerID>>]}

LifecycleConfigs ==
    {NoConfig, ZeroConfig} \cup
    {c \in Configs : c.ServiceName = "checkout-explicit" /\ c.ServiceInstanceID = ""
                     /\ c.ServiceTeam = ""}

Init ==
    /\ env \in LifecycleEnvs
    /\ config \in LifecycleConfigs
    /\ InitLifecycle

InitResource ==
    /\ env \in Environments
    /\ config \in {NoConfig} \cup Configs
    /\ InitLifecycle

(***************************************************************************)
(* NewTelemetryProvider.                                                   *)
(***************************************************************************)
\* the Prometheus reader attached whatever the toggle says
Readers_AlwaysPrometheus(cfg) == <<"prometheus", "periodic">>

\* lines 732-767: the readers setupMetricsProvider collects
Readers(cfg) ==
    (IF cfg.EnablePrometheus THEN <<"prometheus">> ELSE <<>>) \o <<"periodic">>

\* a provider built on the SDK's default resource
WithResource_Default(res) == <<EmptyResource>>

\* the option WithResource(tp.Resource) of a provider: the resource the
\* provider is bound to
WithResource(res) == <<res>>

FailReturn_PartialHandle(msg, err) == [provider |-> "tp", err |-> Wrap(msg, err)]

\* "return nil, fmt.Errorf(...: %w, err)"
FailReturn(msg, err) == [provider |-> "nil", err |-> Wrap(msg, err)]

\* lines 519-534: default config, the provider struct, createResource
CreateResource ==
    /\ pc = "start"
    /\ LET cfg == IF config.isNil THEN DefaultConfig(env) ELSE config
       IN  IF createResourcePanics(cfg, env)
           THEN /\ pc' = "panicked"
                /\ tp' = [tp EXCEPT !.Config = cfg]
                /\ ret' = ret
                /\ validAttributes' = validAttributes
           ELSE \E uuid \in RandomIDs :
                /\ validAttributes' = FilterEmpty(resourceAttributes(cfg, env, uuid))
                /\ \/ /\ pc' = "returned"
                      /\ tp' = [tp EXCEPT !.Config = cfg]
                      /\ ret' = FailReturn("failed to create resource",
                                           <<"resource.New failed">>)
                   \/ /\ tp' = [tp EXCEPT !.Config = cfg,
                                          !.Resource = createResource(cfg, env, uuid),
                                          !.hasResource = TRUE]
                      /\ pc' = "trace"
                      /\ ret' = ret
    /\ UNCHANGED <<env, config, hookCalls, calls, started, completed, accessed, spans, pipes, metrics, globals>>

\* a failed metric step that puts the global providers back to the defaults
SetupMetricsProvider_RollsBack ==
    /\ pc = "metric"
    /\ \/ /\ tp.Config.EnablePrometheus
          /\ ret' = FailReturn("failed to setup metrics provider",
                               Wrap("failed to create prometheus exporter",
                                    <<"prometheus.New failed">>))
          /\ pc' = "returned"
          /\ tp' = tp
       \/ /\ ret' = FailReturn("failed to setup metrics provider",
                               Wrap("failed to create OTLP metrics exporter",
                                    <<"otlpmetrichttp.New failed">>))
          /\ pc' = "returned"
          /\ tp' = tp
       \/ /\ tp' = [tp EXCEPT !.MeterProvider = "built",
                              !.readers = Readers(tp.Config),
                              !.metricsEndpoint = tp.Config.MetricsEndpoint,
                              !.metricsTransport = "plaintext",
                              !.bound["metric"] = WithResource(tp.Resource),
                              !.shutdownFuncs = Append(@, "metric")]
          /\ pc' = "log"
          /\ ret' = ret
    /\ globals' = IF tp'.MeterProvider = "built"
                  THEN [globals EXCEPT !.MeterProvider = "tp"]
                  ELSE NoGlobals
    /\ UNCHANGED <<env, config, hookCalls, calls, started, completed, validAttributes, accessed, spans, pipes, metrics>>

SetupTraceProvider ==
    /\ pc = "trace"
    /\ \/ /\ ret' = FailReturn("failed to setup trace provider",
                               Wrap("failed to create trace exporter",
                                    <<"otlptracehttp.New failed">>))
          /\ pc' = "returned"
          /\ tp' = tp
       \/ /\ tp' = [tp EXCEPT !.TracerProvider = "built",
                              !.traceEndpoint = tp.Config.TraceEndpoint,
                              !.traceTransport = "plaintext",
                              !.bound["trace"] = WithResource(tp.Resource),
                              !.samplerRatio = tp.Config.SampleRate,
                              !.shutdownFuncs = Append(@, "trace")]
          /\ pc' = "metric"
          /\ ret' = ret
    /\ globals' = IF tp'.TracerProvider = "built"
                  THEN [globals EXCEPT !.TracerProvider = "tp"]
                  ELSE globals
    /\ UNCHANGED <<env, config, hookCalls, calls, started, completed, validAttributes, accessed, spans, pipes, metrics>>

SetupMetricsProvider ==
    /\ pc = "metric"
    /\ \/ /\ tp.Config.EnablePrometheus
          /\ ret' = FailReturn("failed to setup metrics provider",
                               Wrap("failed to create prometheus exporter",
                                    <<"prometheus.New failed">>))
          /\ pc' = "returned"
          /\ tp' = tp
       \/ /\ ret' = FailReturn("failed to setup metrics provider",
                               Wrap("failed to create OTLP metrics exporter",
                                    <<"otlpmetrichttp.New failed">>))
          /\ pc' = "returned"
          /\ tp' = tp
       \/ /\ tp' = [tp EXCEPT !.MeterProvider = "built",
                              !.readers = Readers(tp.Config),
                              !.metricsEndpoint = tp.Config.MetricsEndpoint,
                              !.metricsTransport = "plaintext",
                              !.bound["metric"] = WithResource(tp.Resource),
                              !.shutdownFuncs = Append(@, "metric")]
          /\ pc' = "log"
          /\ ret' = ret
    /\ globals' = IF tp'.MeterProvider = "built"
                  THEN [globals EXCEPT !.MeterProvider = "tp"]
                  ELSE globals
    /\ UNCHANGED <<env, config, hookCalls, calls, started, completed, validAttributes, accessed, spans, pipes, metrics>>

\* the log step without its "Add shutdown function"
SetupLoggingProvider_NoHook ==
    /\ pc = "log"
    /\ \/ /\ ret' = FailReturn("failed to setup logging provider",
                               Wrap("failed to create log exporter",
                                    <<"otlploghttp.New failed">>))
          /\ pc' = "returned"
          /\ tp' = tp
       \/ /\ tp' = [tp EXCEPT !.LoggerProvider = "built",
                              !.logsEndpoint = tp.Config.LogsEndpoint,
                              !.logsTransport = "plaintext",
                              !.bound["log"] = WithResource(tp.Resource)]
          /\ pc' = "propagator"
          /\ ret' = ret
    /\ globals' = IF tp'.LoggerProvider = "built"
                  THEN [globals EXCEPT !.LoggerProvider = "tp"]
                  ELSE globals
    /\ UNCHANGED <<env, config, hookCalls, calls, started, completed, validAttributes, accessed, spans, pipes, metrics>>

SetupLoggingProvider ==
    /\ pc = "log"
    /\ \/ /\ ret' = FailReturn("failed to setup logging provider",
                               Wrap("failed to create log exporter",
                                    <<"otlploghttp.New failed">>))
          /\ pc' = "returned"
          /\ tp' = tp
       \/ /\ tp' = [tp EXCEPT !.LoggerProvider = "built",
                              !.logsEndpoint = tp.Config.LogsEndpoint,
                              !.logsTransport = "plaintext",
                              !.bound["log"] = WithResource(tp.Resource),
                              !.shutdownFuncs = Append(@, "log")]
          /\ pc' = "propagator"
          /\ ret' = ret
    /\ globals' = IF tp'.LoggerProvider = "built"
                  THEN [globals EXCEPT !.LoggerProvider = "tp"]
                  ELSE globals
    /\ UNCHANGED <<env, config, hookCalls, calls, started, completed, validAttributes, accessed, spans, pipes, metrics>>

\* lines 551-557: the global propagator, "return provider, nil"
ReturnProvider ==
    /\ pc = "propagator"
    /\ ret' = [provider |-> "tp", err |-> nil]
    /\ pc' = "returned"
    /\ globals' = [globals EXCEPT !.TextMapPropagator = "composite"]
    /\ UNCHANGED <<env, config, tp, hookCalls, calls, started, completed, validAttributes, accessed, spans, pipes, metrics>>

(***************************************************************************)
(* Exports, flushes and collections: what the processors and the readers  *)
(* do on their own steps and inside the Shutdown of their provider.        *)
(***************************************************************************)
\* an export that hands a failed batch to the exporter a second time
ExportBatch_Retry(p, b, ok) ==
    IF ok THEN [p EXCEPT !.exported = Append(@, b)]
    ELSE [p EXCEPT !.exported = @ \o <<b, b>>,
                   !.failed = @ \cup {Len(p.exported) + 1}]

\* ExportSpans / Export of batch b: it succeeds, or it fails or times out;
\* either way the processor is done with the batch
ExportBatch(p, b, ok) ==
    [p EXCEPT !.exported = Append(@, b),
              !.failed = IF ok THEN @ ELSE @ \cup {Len(p.exported) + 1}]

\* q cut into batches of at most n items
RECURSIVE Chunks(_, _)
Chunks(q, n) ==
    IF q = <<>> THEN <<>>
    ELSE IF Len(q) <= n THEN <<q>>
    ELSE <<SubSeq(q, 1, n)>> \o Chunks(SubSeq(q, n + 1, Len(q)), n)

\* the batches a flush of processor p exports
PendingBatches(sig, p) ==
    IF sig = "trace" THEN Chunks(p.batch \o p.queue, BatchSize)
    ELSE Chunks(p.queue, QueueSize)

\* what is pending is exported: the span worker works the channel off,
\* batch by batch, and exports the rest of the batch; the log processor
\* dequeues the whole ring as one batch; the exports in bad have failed
Flushed(sig, p, bad, op) ==
    LET out == PendingBatches(sig, p)
    IN  [p EXCEPT !.queue = <<>>, !.batch = <<>>,
                  !.exported = @ \o out,
                  !.failed = @ \cup {Len(p.exported) + k : k \in bad \cap (1..Len(out))},
                  !.last = op]

\* the outcomes of the exports of one flush
FlushOutcomes(sig, p) == SUBSET (1..Len(PendingBatches(sig, p)))

\* a collection that takes the sums of every reader with it
Collect_SharedDelta(m, r) ==
    [m EXCEPT !.reported[r] = Append(@, m.agg[r]),
              !.agg = [q \in ReaderKinds |-> 0]]

\* reader r collects: cumulative sums, its aggregation stays as it is
Collect(m, r) ==
    [m EXCEPT !.reported[r] = Append(@, m.agg[r])]

\* counter.Add(v): the measurement goes to the aggregation of every reader
\* of the provider
Measure(m, readers, v) ==
    [m EXCEPT !.recorded = @ + v,
              !.agg = [r \in ReaderKinds |->
                          IF r \in readers THEN m.agg[r] + v ELSE m.agg[r]]]

\* a hook that releases the exporter without the final flush
HookPipes_NoFlush(h, bad) ==
    IF h \in Signals /\ hookCalls[h] = 0
    THEN [pipes EXCEPT ![h].last = "shutdown"]
    ELSE pipes

\* TracerProvider.Shutdown / LoggerProvider.Shutdown: the first call stops
\* the processor, exports what is pending and shuts the exporter down;
\* a later call finds the provider stopped
HookPipes(h, bad) ==
    IF h \in Signals /\ hookCalls[h] = 0
    THEN [pipes EXCEPT ![h] = Flushed(h, @, bad, "shutdown")]
    ELSE pipes

\* MeterProvider.Shutdown: the first call stops the periodic reader's
\* timer, collects and exports once more and shuts the exporter down
HookMetrics(h) ==
    IF h = "metric" /\ hookCalls[h] = 0
    THEN [Collect(metrics, "periodic") EXCEPT !.exports = Append(@, "shutdown")]
    ELSE metrics

HookOutcomes(h) ==
    IF h \in Signals /\ hookCalls[h] = 0 THEN FlushOutcomes(h, pipes[h]) ELSE {{}}

(***************************************************************************)
(* Shutdown.  A call is the entry (var errors; i := len-1), one step per   *)
(* iteration of the loop (one hook invocation) and the return; the calls   *)
(* of different goroutines interleave at these steps.                      *)
(***************************************************************************)
ShutdownResult_FirstOnly(errors) ==
    IF Len(errors) > 0
    THEN <<"failed to shutdown telemetry providers: ">> \o FormatErrors(<<Head(errors)>>)
    ELSE nil

\* lines 874-878
ShutdownResult(errors) ==
    IF Len(errors) > 0
    THEN <<"failed to shutdown telemetry providers: ">> \o FormatErrors(errors)
    ELSE nil

\* the handle is only in the caller's hands after a successful bootstrap
ShutdownCall(t) ==
    /\ ret.provider = "tp"
    /\ calls[t].pc \in {"idle", "returned"}
    /\ started < MaxShutdownCalls
    /\ calls' = [calls EXCEPT ![t] =
                    [pc |-> "loop", i |-> Len(tp.shutdownFuncs), errors |-> <<>>,
                     invoked |-> <<>>, ret |-> nil, afterClosed |-> completed > 0]]
    /\ started' = started + 1
    /\ UNCHANGED <<env, config, pc, tp, ret, hookCalls, completed, validAttributes, accessed, spans, pipes, metrics, globals>>

ShutdownInvoke_Forward(t) ==
    /\ calls[t].pc = "loop"
    /\ calls[t].i >= 1
    /\ LET h == tp.shutdownFuncs[Len(tp.shutdownFuncs) - calls[t].i + 1]
       IN  \E err \in HookResults(h) :
              /\ hookCalls' = [hookCalls EXCEPT ![h] = @ + 1]
              /\ calls' = [calls EXCEPT
                              ![t].invoked = Append(@, [hook |-> h, err |-> err]),
                              ![t].errors = IF err # nil THEN Append(@, err) ELSE @,
                              ![t].i = @ - 1]
    /\ UNCHANGED <<env, config, pc, tp, ret, started, completed, validAttributes, accessed, spans, pipes, metrics, globals>>

ShutdownInvoke_StopOnError(t) ==
    /\ calls[t].pc = "loop"
    /\ calls[t].i >= 1
    /\ LET h == tp.shutdownFuncs[calls[t].i]
       IN  \E err \in HookResults(h) :
              /\ hookCalls' = [hookCalls EXCEPT ![h] = @ + 1]
              /\ calls' = [calls EXCEPT
                              ![t].invoked = Append(@, [hook |-> h, err |-> err]),
                              ![t].errors = IF err # nil THEN Append(@, err) ELSE @,
                              ![t].i = IF err # nil THEN 0 ELSE @ - 1]
    /\ UNCHANGED <<env, config, pc, tp, ret, started, completed, validAttributes, accessed, spans, pipes, metrics, globals>>

\* a Shutdown that takes each hook off the list as it runs it
ShutdownInvoke_PopsHook(t) ==
    /\ calls[t].pc = "loop"
    /\ calls[t].i >= 1
    /\ calls[t].i <= Len(tp.shutdownFuncs)
    /\ LET h == tp.shutdownFuncs[calls[t].i]
       IN  \E err \in HookResults(h) :
           \E bad \in HookOutcomes(h) :
              /\ hookCalls' = [hookCalls EXCEPT ![h] = @ + 1]
              /\ calls' = [calls EXCEPT
                              ![t].invoked = Append(@, [hook |-> h, err |-> err]),
                              ![t].errors = IF err # nil THEN Append(@, err) ELSE @,
                              ![t].i = @ - 1]
              /\ pipes' = HookPipes(h, bad)
              /\ metrics' = HookMetrics(h)
              /\ tp' = [tp EXCEPT !.shutdownFuncs = SubSeq(@, 1, calls[t].i - 1)]
    /\ UNCHANGED <<env, config, pc, ret, started, completed, validAttributes, accessed, spans, globals>>

\* lines 868-872: one iteration, i counting down (i here is the Go index + 1)
ShutdownInvoke(t) ==
    /\ calls[t].pc = "loop"
    /\ calls[t].i >= 1
    /\ LET h == tp.shutdownFuncs[calls[t].i]
       IN  \E err \in HookResults(h) :
           \E bad \in HookOutcomes(h) :
              /\ hookCalls' = [hookCalls EXCEPT ![h] = @ + 1]
              /\ calls' = [calls EXCEPT
                              ![t].invoked = Append(@, [hook |-> h, err |-> err]),
                              ![t].errors = IF err # nil THEN Append(@, err) ELSE @,
                              ![t].i = @ - 1]
              /\ pipes' = HookPipes(h, bad)
              /\ metrics' = HookMetrics(h)
    /\ UNCHANGED <<env, config, pc, tp, ret, started, completed, validAttributes, accessed, spans, globals>>

ShutdownReturn(t) ==
    /\ calls[t].pc = "loop"
    /\ calls[t].i < 1
    /\ calls' = [calls EXCEPT ![t].pc = "returned",
                              ![t].ret = ShutdownResult(calls[t].errors)]
    /\ completed' = completed + 1
    /\ UNCHANGED <<env, config, pc, tp, ret, hookCalls, started, validAttributes, accessed, spans, pipes, metrics, globals>>

(***************************************************************************)
(* Accessors.  The caller holds the handle NewTelemetryProvider returned.  *)
(* An SDK provider hands out no-op instruments from the moment its         *)
(* Shutdown has been called; calling a method of a nil provider panics.    *)
(***************************************************************************)
\* where the Shutdown calls on the handle stand
ShutdownPhase ==
    IF \E t \in Callers : calls[t].pc = "loop" THEN "during"
    ELSE IF completed > 0 THEN "after"
    ELSE "before"

\* a provider that keeps handing out live instruments
Instrument_IgnoresShutdown(provider, h) ==
    IF provider = "nil" THEN "panic" ELSE "live"

\* provider.Tracer(name) / provider.Meter(name) / provider.Logger(name)
Instrument(provider, h) ==
    IF provider = "nil" THEN "panic"
    ELSE IF hookCalls[h] > 0 THEN "noop"
    ELSE "live"

AccessorUnchanged ==
    UNCHANGED <<env, config, pc, tp, ret, hookCalls, calls, started, completed,
                validAttributes, spans, pipes, metrics, globals>>

\* lines 849-851
GetTracer ==
    /\ ret.provider = "tp"
    /\ accessed' = [kind |-> "trace", result |-> Instrument(tp.TracerProvider, "trace"),
                    during |-> ShutdownPhase]
    /\ AccessorUnchanged

\* lines 854-856
GetMeter ==
    /\ ret.provider = "tp"
    /\ accessed' = [kind |-> "metric", result |-> Instrument(tp.MeterProvider, "metric"),
                    during |-> ShutdownPhase]
    /\ AccessorUnchanged

\* lines 859-861: the logger of the global LoggerProvider, which line 840
\* set to tp.LoggerProvider
GetLogger ==
    /\ ret.provider = "tp"
    /\ accessed' = [kind |-> "log", result |-> Instrument(tp.LoggerProvider, "log"),
                    during |-> ShutdownPhase]
    /\ AccessorUnchanged

(***************************************************************************)
(* Specifications.                                                         *)
(***************************************************************************)
Next ==
    \/ CreateResource
    \/ SetupTraceProvider
    \/ SetupMetricsProvider
    \/ SetupLoggingProvider
    \/ ReturnProvider
    \/ GetTracer
    \/ GetMeter
    \/ GetLogger
    \/ \E t \in Callers : ShutdownCall(t)
    \/ \E t \in Callers : ShutdownInvoke(t)
    \/ \E t \in Callers : ShutdownReturn(t)

Spec == Init /\ [][Next]_vars

\* resource resolution over all the modelled configs and environments
NextResource == CreateResource

SpecResource == InitResource /\ [][NextResource]_vars

(***************************************************************************)
(* Sampling.  A trace id is one of RateDen values; the ratio sampler keeps *)
(* the ids below its threshold (ratio >= 1 keeps all, ratio <= 0 none).    *)
(* A parent is the span context found in the ctx passed to Start: none, a  *)
(* span of this process (local) or one extracted from a carrier (remote).  *)
(***************************************************************************)
TraceIDs == 0..(RateDen - 1)

TraceIDRatioBased(ratio, traceID) == traceID < ratio

NoParent == [kind |-> "none", index |-> 0, traceID |-> 0, sampled |-> FALSE]

LocalParents(ss) ==
    {[kind |-> "local", index |-> i, traceID |-> ss[i].traceID,
      sampled |-> ss[i].sampled] : i \in 1..Len(ss)}

RemoteParents ==
    [kind : {"remote"}, index : {0}, traceID : TraceIDs, sampled : BOOLEAN]

\* the sampler with a sampled local parent left to the ratio
ParentBased_LocalSampledRatio(ratio, parent, traceID) ==
    IF parent.kind = "remote" THEN parent.sampled
    ELSE TraceIDRatioBased(ratio, traceID)

\* the sampler with an unsampled remote parent left to the ratio
ParentBased_RemoteUnsampledRatio(ratio, parent, traceID) ==
    IF parent.kind # "none" /\ parent.sampled THEN TRUE
    ELSE TraceIDRatioBased(ratio, traceID)

\* lines 697-704
ParentBased(ratio, parent, traceID) ==
    IF parent.kind = "none" THEN TraceIDRatioBased(ratio, traceID)
    ELSE IF parent.kind = "remote"
         THEN (IF parent.sampled THEN TRUE ELSE FALSE)
         ELSE (IF parent.sampled THEN TRUE
               ELSE TraceIDRatioBased(ratio, traceID))

\* tracer.Start(ctx, name): a span that has a parent continues its trace,
\* a span without one starts a trace with a fresh id
StartSpan ==
    /\ pc = "returned"
    /\ ret.provider = "tp"
    /\ hookCalls["trace"] = 0
    /\ Len(spans) < MaxSpans
    /\ \E parent \in {NoParent} \cup LocalParents(spans) \cup RemoteParents :
       \E fresh \in TraceIDs :
          /\ parent.kind # "none" => fresh = 0
          /\ LET traceID == IF parent.kind = "none" THEN fresh ELSE parent.traceID
             IN  spans' = Append(spans,
                     [traceID |-> traceID, parent |-> parent,
                      sampled |-> ParentBased(tp.samplerRatio, parent, traceID)])
    /\ UNCHANGED <<env, config, pc, tp, ret, hookCalls, calls, started, completed,
                   validAttributes, accessed, pipes, metrics, globals>>

SamplingConfigs ==
    [isNil             : {FALSE},
     ServiceName       : {"checkout-explicit"},
     ServiceInstanceID : {""},
     ServiceTeam       : {""},
     EnablePrometheus  : {FALSE},
     TraceEndpoint     : {"tempo:4318"},
     MetricsEndpoint   : {"mimir:4318"},
     LogsEndpoint      : {"loki:4318"},
     SampleRate        : 0..RateDen,
     InsecureMode      : {TRUE}]

InitSampling ==
    /\ env = BaseEnv
    /\ config \in SamplingConfigs
    /\ InitLifecycle

NextSampling ==
    \/ CreateResource
    \/ SetupTraceProvider
    \/ SetupMetricsProvider
    \/ SetupLoggingProvider
    \/ ReturnProvider
    \/ StartSpan

SpecSampling == InitSampling /\ [][NextSampling]_vars

(***************************************************************************)
(* Batch processors.  The span processor queues in a channel of QueueSize  *)
(* and, non-blocking, refuses a span when the channel is full; its worker  *)
(* moves spans from the channel to the batch and exports the batch when it *)
(* has BatchSize spans or when the batch timer fires.  The log processor   *)
(* queues in a ring of QueueSize whose write overwrites the oldest record  *)
(* when the ring is full; its poller hands up to BatchSize records to the  *)
(* exporter.  ForceFlush exports what is queued.                           *)
(***************************************************************************)
\* a processor whose loop ends with the first failed export
PipelineUp_UntilExportFails(sig) ==
    /\ pc = "returned"
    /\ ret.provider = "tp"
    /\ hookCalls[sig] = 0
    /\ pipes[sig].failed = {}

PipelineUp(sig) ==
    /\ pc = "returned"
    /\ ret.provider = "tp"
    /\ hookCalls[sig] = 0

TotalEmitted == pipes["trace"].emitted + pipes["log"].emitted

\* a channel send that waits for room
EnqueueDrop_Unbounded(p, id) ==
    [p EXCEPT !.queue = Append(@, id), !.emitted = id, !.last = "emit"]

\* trace: "select { case queue <- sd: default: dropped++ }"
EnqueueDrop(p, id) ==
    IF Len(p.queue) < QueueSize
    THEN [p EXCEPT !.queue = Append(@, id), !.emitted = id, !.last = "emit"]
    ELSE [p EXCEPT !.dropped = @ \cup {id}, !.emitted = id, !.last = "emit"]

\* log: the write to the ring; on overflow the read position advances
RingEnqueue(p, id) ==
    IF Len(p.queue) < QueueSize
    THEN [p EXCEPT !.queue = Append(@, id), !.emitted = id, !.last = "emit"]
    ELSE [p EXCEPT !.queue = Append(Tail(@), id),
                   !.overflowed = @ \cup {Head(p.queue)},
                   !.emitted = id, !.last = "emit"]

PipesUnchanged ==
    UNCHANGED <<env, config, pc, tp, ret, hookCalls, calls, started, completed,
                validAttributes, accessed, spans, metrics, globals>>

\* span.End() of a sampled span / logger.Emit(record)
Emit(sig) ==
    /\ PipelineUp(sig)
    /\ TotalEmitted < MaxEmits
    /\ LET id == pipes[sig].emitted + 1
       IN  pipes' = [pipes EXCEPT ![sig] = IF sig = "trace"
                                           THEN EnqueueDrop(@, id)
                                           ELSE RingEnqueue(@, id)]
    /\ PipesUnchanged

\* the span worker takes the newest span of the channel
Dequeue_Newest ==
    /\ PipelineUp("trace")
    /\ pipes["trace"].queue # <<>>
    /\ \E ok \in BOOLEAN :
       LET p == pipes["trace"]
           n == Len(p.queue)
           b == Append(p.batch, p.queue[n])
           rest == SubSeq(p.queue, 1, n - 1)
       IN  pipes' = [pipes EXCEPT !["trace"] =
                IF Len(b) >= BatchSize
                THEN [ExportBatch(p, b, ok) EXCEPT !.queue = rest, !.batch = <<>>,
                                                   !.last = "dequeue"]
                ELSE [p EXCEPT !.queue = rest, !.batch = b, !.last = "dequeue"]]
    /\ PipesUnchanged

\* the span worker receives one span; a full batch is exported at once
Dequeue ==
    /\ PipelineUp("trace")
    /\ pipes["trace"].queue # <<>>
    /\ \E ok \in BOOLEAN :
       LET p == pipes["trace"]
           b == Append(p.batch, Head(p.queue))
       IN  pipes' = [pipes EXCEPT !["trace"] =
                IF Len(b) >= BatchSize
                THEN [ExportBatch(p, b, ok) EXCEPT !.queue = Tail(p.queue),
                                                   !.batch = <<>>,
                                                   !.last = "dequeue"]
                ELSE [p EXCEPT !.queue = Tail(@), !.batch = b, !.last = "dequeue"]]
    /\ PipesUnchanged

\* the batch timer of the span worker fires
Tick ==
    /\ PipelineUp("trace")
    /\ pipes["trace"].batch # <<>>
    /\ \E ok \in BOOLEAN :
          pipes' = [pipes EXCEPT !["trace"] =
                      [ExportBatch(@, pipes["trace"].batch, ok)
                          EXCEPT !.batch = <<>>, !.last = "tick"]]
    /\ PipesUnchanged

\* the log poller, on its interval or its trigger
Poll ==
    /\ PipelineUp("log")
    /\ pipes["log"].queue # <<>>
    /\ \E ok \in BOOLEAN :
       LET p == pipes["log"]
           n == IF Len(p.queue) < BatchSize THEN Len(p.queue) ELSE BatchSize
       IN  pipes' = [pipes EXCEPT !["log"] =
                [ExportBatch(p, SubSeq(p.queue, 1, n), ok)
                    EXCEPT !.queue = SubSeq(p.queue, n + 1, Len(p.queue)),
                           !.last = "poll"]]
    /\ PipesUnchanged

\* ForceFlush
ForceFlush(sig) ==
    /\ PipelineUp(sig)
    /\ \E bad \in FlushOutcomes(sig, pipes[sig]) :
          pipes' = [pipes EXCEPT ![sig] = Flushed(sig, @, bad, "flush")]
    /\ PipesUnchanged

QueueConfig ==
    [isNil |-> FALSE, ServiceName |-> "checkout-explicit", ServiceInstanceID |-> "",
     ServiceTeam |-> "", EnablePrometheus |-> TRUE, TraceEndpoint |-> "tempo:4318",
     MetricsEndpoint |-> "mimir:4318", LogsEndpoint |-> "loki:4318",
     SampleRate |-> RateDen, InsecureMode |-> TRUE]

InitQueue ==
    /\ env = BaseEnv
    /\ config = QueueConfig
    /\ InitLifecycle

NextQueue ==
    \/ CreateResource
    \/ SetupTraceProvider
    \/ SetupMetricsProvider
    \/ SetupLoggingProvider
    \/ ReturnProvider
    \/ \E sig \in Signals : Emit(sig)
    \/ Dequeue
    \/ Tick
    \/ Poll
    \/ \E sig \in Signals : ForceFlush(sig)

SpecQueue == InitQueue /\ [][NextQueue]_vars

\* the span worker and the log poller are goroutines that loop over their
\* queue and their timer for as long as the processor is up
SpecQueueFair ==
    /\ InitQueue
    /\ [][NextQueue]_vars
    /\ WF_vars(Dequeue)
    /\ WF_vars(Tick)
    /\ WF_vars(Poll)

(***************************************************************************)
(* Metrics.  One counter of a meter of tp.MeterProvider; the Prometheus    *)
(* exporter collects when it is scraped, the periodic reader when its      *)
(* timer fires.  Both readers have cumulative temporality.                 *)
(***************************************************************************)
MeterUp ==
    /\ pc = "returned"
    /\ ret.provider = "tp"
    /\ hookCalls["metric"] = 0

Measurements == {1, 2}

MetricsUnchanged ==
    UNCHANGED <<env, config, pc, tp, ret, hookCalls, calls, started, completed,
                validAttributes, accessed, spans, pipes, globals>>

\* counter.Add(ctx, v)
Record ==
    /\ MeterUp
    /\ \E v \in Measurements :
          /\ metrics.recorded + v <= MaxRecorded
          /\ metrics' = Measure(metrics, Range(tp.readers), v)
    /\ MetricsUnchanged

\* a scrape of the /metrics endpoint
Scrape ==
    /\ MeterUp
    /\ "prometheus" \in Range(tp.readers)
    /\ Len(metrics.reported["prometheus"]) < MaxCollects
    /\ metrics' = Collect(metrics, "prometheus")
    /\ MetricsUnchanged

\* the interval timer of the periodic reader fires: collect and export
PeriodicExport ==
    /\ MeterUp
    /\ "periodic" \in Range(tp.readers)
    /\ Len(metrics.reported["periodic"]) < MaxCollects
    /\ metrics' = [Collect(metrics, "periodic") EXCEPT !.exports = Append(@, "timer")]
    /\ MetricsUnchanged

MetricsConfigs ==
    {QueueConfig, [QueueConfig EXCEPT !.EnablePrometheus = FALSE]}

InitMetrics ==
    /\ env = BaseEnv
    /\ config \in MetricsConfigs
    /\ InitLifecycle

\* the one Shutdown call on the handle
ShutdownOnce ==
    /\ started = 0
    /\ ShutdownCall(1)

NextMetrics ==
    \/ CreateResource
    \/ SetupTraceProvider
    \/ SetupMetricsProvider
    \/ SetupLoggingProvider
    \/ ReturnProvider
    \/ Record
    \/ Scrape
    \/ PeriodicExport
    \/ ShutdownOnce
    \/ ShutdownInvoke(1)
    \/ ShutdownReturn(1)

SpecMetrics == InitMetrics /\ [][NextMetrics]_vars

\* spans and measurements up to a Shutdown of the handle by one goroutine
NextFinalFlush ==
    \/ CreateResource
    \/ SetupTraceProvider
    \/ SetupMetricsProvider
    \/ SetupLoggingProvider
    \/ ReturnProvider
    \/ Emit("trace")
    \/ Dequeue
    \/ Tick
    \/ Record
    \/ PeriodicExport
    \/ ShutdownOnce
    \/ ShutdownInvoke(1)
    \/ ShutdownReturn(1)

SpecFinalFlush == InitQueue /\ [][NextFinalFlush]_vars

(***************************************************************************)
(* Properties.                                                             *)
(***************************************************************************)

IsPrefix(p, q) == Len(p) <= Len(q) /\ SubSeq(q, 1, Len(p)) = p

\* the hooks one Shutdown call has invoked, in the order of invocation
HooksOf(c) == [k \in 1..Len(c.invoked) |-> c.invoked[k].hook]

\* the hooks that returned an error to one Shutdown call
FailedOf(c) == {r.hook : r \in {x \in Range(c.invoked) : x.err # nil}}

\* C1: a Shutdown call that starts after an earlier call on the same handle
\* has returned invokes no hook and returns nil
C1_SecondShutdownIsNoop ==
    \A t \in Callers :
        calls[t].afterClosed =>
            /\ calls[t].invoked = <<>>
            /\ calls[t].pc = "returned" => calls[t].ret = nil

\* C2: when NewTelemetryProvider has returned an error, the hook of every
\* pipeline built before the failing step has been invoked exactly once
C2_FailedBootstrapClosesBuilt ==
    (pc = "returned" /\ ret.err # nil) =>
        \A h \in Range(tp.shutdownFuncs) : hookCalls[h] = 1

\* C3: within one Shutdown call the hooks are invoked in reverse registration
\* order: the log hook, then the metric hook, then the trace hook
C3_ReverseOrder ==
    \A t \in Callers : IsPrefix(HooksOf(calls[t]), <<"log", "metric", "trace">>)

C3_Witness ==
    \E t \in Callers :
        /\ calls[t].pc = "returned"
        /\ HooksOf(calls[t]) = <<"log", "metric", "trace">>

\* C4: a Shutdown call that has returned has invoked every registered hook,
\* whichever of them returned an error
C4_AllHooksRun ==
    \A t \in Callers :
        calls[t].pc = "returned" =>
            /\ Len(calls[t].invoked) = Len(tp.shutdownFuncs)
            /\ Range(HooksOf(calls[t])) = Range(tp.shutdownFuncs)

C4_Witness ==
    \E t \in Callers :
        /\ calls[t].pc = "returned"
        /\ calls[t].invoked[1].err # nil
        /\ Range(HooksOf(calls[t])) = Hooks

\* C5: Shutdown returns nil exactly when no hook of the call failed; otherwise
\* the returned error holds the error of each hook that failed and of no other
C5_AggregateNamesFailed ==
    \A t \in Callers :
        calls[t].pc = "returned" =>
            /\ (calls[t].ret = nil) <=> (FailedOf(calls[t]) = {})
            /\ calls[t].ret # nil =>
                  \A h \in Hooks :
                      (HookError(h)[1] \in Range(calls[t].ret)) <=> (h \in FailedOf(calls[t]))

C5_Witness ==
    \E t \in Callers :
        /\ calls[t].pc = "returned"
        /\ FailedOf(calls[t]) = {"metric"}
        /\ calls[t].ret = <<"failed to shutdown telemetry providers: ", "[",
                            "meter provider shutdown failed", "]">>

\* the build step a returned NewTelemetryProvider call stopped at
FailedStepMessage ==
    IF ~tp.hasResource THEN "failed to create resource"
    ELSE IF tp.TracerProvider = "nil" THEN "failed to setup trace provider"
    ELSE IF tp.MeterProvider = "nil" THEN "failed to setup metrics provider"
    ELSE "failed to setup logging provider"

AllBuilt ==
    /\ tp.hasResource
    /\ tp.TracerProvider = "built"
    /\ tp.MeterProvider = "built"
    /\ tp.LoggerProvider = "built"

\* C6: NewTelemetryProvider returns a handle only when the resource and the
\* three pipelines were built, and then no error; otherwise it returns a nil
\* handle and an error that wraps the error of the failed step
C6_NoPartialHandle ==
    /\ pc # "returned" => ret.provider = "none"
    /\ pc = "returned" =>
          /\ ret.provider \in {"tp", "nil"}
          /\ ret.provider = "tp" <=> AllBuilt
          /\ ret.provider = "tp" => ret.err = nil
          /\ ret.provider = "nil" =>
                /\ Len(ret.err) >= 2
                /\ ret.err[1] = FailedStepMessage

C6_Witness ==
    /\ pc = "returned"
    /\ ret.provider = "nil"
    /\ tp.MeterProvider = "built"
    /\ tp.LoggerProvider = "nil"

\* C7: over all the Shutdown calls made on a handle, also concurrent ones,
\* each hook is invoked at most once
C7_HooksAtMostOnce ==
    \A h \in Hooks : hookCalls[h] <= 1

\* C8: with an empty Config.ServiceName and SERVICE_NAME=checkout as the only
\* source of a service name, the resource has service.name = checkout
C8_EmptyConfigFallsBackToEnv ==
    ( /\ tp.hasResource
      /\ ~config.isNil
      /\ config.ServiceName = ""
      /\ env.SERVICE_NAME = "checkout"
      /\ env.OTEL_SERVICE_NAME = ""
      /\ env.OTEL_RESOURCE_ATTRIBUTES = <<>> ) =>
        /\ "service.name" \in DOMAIN tp.Resource
        /\ tp.Resource["service.name"] = "checkout"

\* C9: a non-empty explicit Config value is the resolved value of its
\* attribute, whatever the environment supplies; with the Config field empty,
\* a value from the environment wins over an auto-detected one
C9_ExplicitConfigWins ==
    (tp.hasResource /\ ~config.isNil) =>
        /\ config.ServiceName # "" =>
              /\ "service.name" \in DOMAIN tp.Resource
              /\ tp.Resource["service.name"] = config.ServiceName
        /\ config.ServiceInstanceID # "" =>
              /\ "service.instance.id" \in DOMAIN tp.Resource
              /\ tp.Resource["service.instance.id"] = config.ServiceInstanceID
        /\ config.ServiceTeam # "" =>
              /\ "service.team" \in DOMAIN tp.Resource
              /\ tp.Resource["service.team"] = config.ServiceTeam
        /\ (config.ServiceInstanceID = "" /\ getServiceInstanceID(env) # "") =>
              /\ "service.instance.id" \in DOMAIN tp.Resource
              /\ tp.Resource["service.instance.id"] = getServiceInstanceID(env)

\* C10: no attribute of the resolved Resource has the empty string as value
C10_NoEmptyValues ==
    tp.hasResource => \A k \in DOMAIN tp.Resource : tp.Resource[k] # ""

\* C11: resource resolution never panics, whatever optional values are
\* present, absent or short
C11_ResolutionNeverPanics ==
    pc # "panicked"

\* value of the attribute with key k in an attribute list that has one
AttrValue(attrs, k) ==
    attrs[CHOOSE i \in 1..Len(attrs) : attrs[i].key = k].value

HasAttr(attrs, k) == \E i \in 1..Len(attrs) : attrs[i].key = k

\* the first n characters of s, all of s when it is shorter
Truncate(s, n) == IF Len(s) <= n THEN s ELSE SubSeq(s, 1, n)

\* createResource has computed the attribute list
Resolved == pc \notin {"start", "panicked"}

C13_DecisionFollowsParent ==
    \A i \in 1..Len(spans) :
        LET sp == spans[i]
            byRatio == sp.traceID < tp.Config.SampleRate
        IN  /\ (sp.parent.kind \in {"local", "remote"} /\ sp.parent.sampled)
                  => sp.sampled
            /\ (sp.parent.kind = "remote" /\ ~sp.parent.sampled) => ~sp.sampled
            /\ (sp.parent.kind = "local" /\ ~sp.parent.sampled)
                  => (sp.sampled <=> byRatio)
            /\ sp.parent.kind = "none" => (sp.sampled <=> byRatio)

\* a span under an unsampled remote parent is dropped, its child is kept by
\* the ratio
C13_Witness ==
    \E i, j \in 1..Len(spans) :
        /\ spans[i].parent.kind = "remote"
        /\ ~spans[i].parent.sampled
        /\ ~spans[i].sampled
        /\ spans[j].parent.kind = "local"
        /\ spans[j].parent.index = i
        /\ spans[j].sampled

\* the span of this process that the tree of span i hangs from
RECURSIVE RootOf(_)
RootOf(i) ==
    IF spans[i].parent.kind = "local" THEN RootOf(spans[i].parent.index) ELSE i

\* C14: every span in the tree under a sampled root span is sampled, for
\* every configured ratio
C14_SampledRootSamplesSubtree ==
    \A i \in 1..Len(spans) : spans[RootOf(i)].sampled => spans[i].sampled

\* ratio 0: a grandchild of a root span that a sampled remote parent forced
C14_Witness ==
    /\ pc = "returned"
    /\ tp.Config.SampleRate = 0
    /\ \E i \in 1..Len(spans) :
          /\ spans[i].parent.kind = "local"
          /\ spans[spans[i].parent.index].parent.kind = "local"
          /\ spans[RootOf(i)].sampled
          /\ spans[i].sampled

\* an emission to signal sig while its queue holds QueueSize items
EmitAtFullQueue(sig) ==
    /\ Len(pipes[sig].queue) = QueueSize
    /\ pipes'[sig].emitted = pipes[sig].emitted + 1

C16_NoopOnceShutdownStarted ==
    accessed.during \in {"during", "after"} => accessed.result = "noop"

\* C16 (amended): the accessors never panic; each returns a no-op instrument
\* exactly when the shutdown hook of its own provider has been invoked
\* before the call, hence always once a Shutdown call has completed and
\* never before the first Shutdown call
C16_AccessorsDegradeToNoop ==
    /\ [](/\ accessed.result # "panic"
          /\ accessed.during = "after" => accessed.result = "noop"
          /\ accessed.during = "before" => accessed.result \in {"none", "live"})
    /\ [][accessed' # accessed =>
            (accessed'.result = "noop" <=> hookCalls[accessed'.kind] > 0)]_vars

\* GetTracer during a Shutdown that has run the log hook only: a live tracer
C16_Witness ==
    /\ accessed = [kind |-> "trace", result |-> "live", during |-> "during"]
    /\ hookCalls["log"] = 1
    /\ hookCalls["trace"] = 0

\* the endpoint a Config leaves unset: a nil Config, or an empty field
Unset(cfg, field) == IF cfg.isNil THEN TRUE ELSE cfg[field] = ""

\* C17: when the Config passed to NewTelemetryProvider is nil or leaves an
\* endpoint unset, the exporter of that signal is built for the local
\* collector address
C17_UnsetEndpointsDefault ==
    /\ (tp.TracerProvider = "built" /\ Unset(config, "TraceEndpoint"))
          => tp.traceEndpoint = "http://localhost:4318/v1/traces"
    /\ (tp.MeterProvider = "built" /\ Unset(config, "MetricsEndpoint"))
          => tp.metricsEndpoint = "http://localhost:4318/v1/metrics"
    /\ (tp.LoggerProvider = "built" /\ Unset(config, "LogsEndpoint"))
          => tp.logsEndpoint = "http://localhost:4318/v1/logs"

\* the first non-empty value of a list of aliases, else the default
RECURSIVE FirstNonEmpty(_, _)
FirstNonEmpty(values, default) ==
    IF values = <<>> THEN default
    ELSE IF Head(values) # "" THEN Head(values)
    ELSE FirstNonEmpty(Tail(values), default)

\* C18: with a nil Config and no OTEL_RESOURCE_ATTRIBUTES, the resolved
\* service.name is the first non-empty of SERVICE_NAME, OTEL_SERVICE_NAME,
\* else the default otel-lgtm-api; the resolved service.team is the first
\* non-empty of SERVICE_TEAM, TEAM and is absent when neither is set
C18_FirstAliasWins ==
    (tp.hasResource /\ config.isNil /\ env.OTEL_RESOURCE_ATTRIBUTES = <<>>) =>
        /\ "service.name" \in DOMAIN tp.Resource
        /\ tp.Resource["service.name"] =
              FirstNonEmpty(<<env.SERVICE_NAME, env.OTEL_SERVICE_NAME>>, "otel-lgtm-api")
        /\ IF FirstNonEmpty(<<env.SERVICE_TEAM, env.TEAM>>, "") = ""
           THEN "service.team" \notin DOMAIN tp.Resource
           ELSE /\ "service.team" \in DOMAIN tp.Resource
                /\ tp.Resource["service.team"] =
                      FirstNonEmpty(<<env.SERVICE_TEAM, env.TEAM>>, "")

\* the value of the last pair of attrs that has key k
LastValue(attrs, k) ==
    LET at == {i \in 1..Len(attrs) : attrs[i].key = k}
    IN  attrs[CHOOSE i \in at : \A j \in at : j <= i].value

\* C19 as stated: a key of OTEL_RESOURCE_ATTRIBUTES has, in the resolved
\* resource, the value that variable gives it, whatever the other
\* environment variables hold
C19_ExtraAttributesOverrideAll ==
    tp.hasResource =>
        \A k \in {a.key : a \in Range(env.OTEL_RESOURCE_ATTRIBUTES)} :
            /\ k \in DOMAIN tp.Resource
            /\ tp.Resource[k] = LastValue(env.OTEL_RESOURCE_ATTRIBUTES, k)

\* C19 (amended): a key of OTEL_RESOURCE_ATTRIBUTES has, in the resolved
\* resource, the value that variable gives it, over SERVICE_NAME and the
\* other variables the program reads itself; the one exception is
\* service.name when OTEL_SERVICE_NAME is set, which then is the value
C19_ExtraAttributesOverride ==
    tp.hasResource =>
        \A k \in {a.key : a \in Range(env.OTEL_RESOURCE_ATTRIBUTES)} :
            /\ k \in DOMAIN tp.Resource
            /\ tp.Resource[k] =
                  IF k = "service.name" /\ env.OTEL_SERVICE_NAME # ""
                  THEN env.OTEL_SERVICE_NAME
                  ELSE LastValue(env.OTEL_RESOURCE_ATTRIBUTES, k)

C19_Witness ==
    /\ tp.hasResource
    /\ config.isNil
    /\ env.SERVICE_NAME = "checkout"
    /\ env.OTEL_SERVICE_NAME = ""
    /\ env.OTEL_RESOURCE_ATTRIBUTES = <<KV("service.name", "from-attrs")>>
    /\ tp.Resource["service.name"] = "from-attrs"

\* the hooks of the pipelines built so far, in the order of the build steps
BuiltHooks ==
    (IF tp.TracerProvider = "built" THEN <<"trace">> ELSE <<>>)
    \o (IF tp.MeterProvider = "built" THEN <<"metric">> ELSE <<>>)
    \o (IF tp.LoggerProvider = "built" THEN <<"log">> ELSE <<>>)

\* C20: the steps run in the order resource, trace, metric, log, none after
\* a failed one; every pipeline built has appended exactly its own hook, and
\* a returned handle holds the three hooks in the order trace, metric, log
C20_StepsInOrderOneHookEach ==
    /\ [](/\ tp.LoggerProvider = "built" => tp.MeterProvider = "built"
          /\ tp.MeterProvider = "built" => tp.TracerProvider = "built"
          /\ tp.TracerProvider = "built" => tp.hasResource
          /\ tp.shutdownFuncs = BuiltHooks
          /\ ret.provider = "tp" => tp.shutdownFuncs = <<"trace", "metric", "log">>)
    /\ [][/\ pc = "returned" => tp' = tp
          /\ Len(tp'.shutdownFuncs) <= Len(tp.shutdownFuncs) + 1
          /\ IsPrefix(tp.shutdownFuncs, tp'.shutdownFuncs)]_vars

\* a bootstrap that returned a handle
C20_Witness ==
    /\ pc = "returned"
    /\ ret.provider = "tp"
    /\ tp.shutdownFuncs = <<"trace", "metric", "log">>

\* the items of a sequence of batches, in the order of their export
RECURSIVE Flatten(_)
Flatten(batches) ==
    IF batches = <<>> THEN <<>> ELSE Head(batches) \o Flatten(Tail(batches))

\* C21: the items of a signal are exported in the order they were accepted
\* (an item is named by its emission number), within a batch and across
\* batches, and what is still pending was accepted after all that is exported
C21_ExportedInAcceptOrder ==
    \A sig \in Signals :
        LET all == Flatten(pipes[sig].exported) \o pipes[sig].batch \o pipes[sig].queue
        IN  \A i, j \in 1..Len(all) : i < j => all[i] < all[j]

\* spans 1..3 exported in two batches
C21_Witness ==
    pipes["trace"].exported = <<<<1, 2>>, <<3>>>>

\* C22: once an export of the span processor has failed, every span that
\* is in its queue is still handed to the exporter later on
C22_LoopSurvivesExportFailure ==
    \A id \in 1..MaxEmits :
        (/\ pipes["trace"].failed # {}
         /\ id \in Range(pipes["trace"].queue))
            ~> (id \in Range(Flatten(pipes["trace"].exported)))

\* the first export failed, a second one took place
C22_Witness ==
    /\ pipes["trace"].failed = {1}
    /\ Len(pipes["trace"].exported) = 2
    /\ pipes["trace"].last = "tick"

\* C23: no item of a signal is handed to the exporter twice, and the items
\* of an export, failed or not, are neither in the queue nor in the batch
\* any more
C23_AtMostOnce ==
    \A sig \in Signals :
        LET handed == Flatten(pipes[sig].exported)
            pending == pipes[sig].batch \o pipes[sig].queue
        IN  /\ Cardinality(Range(handed)) = Len(handed)
            /\ Range(handed) \cap Range(pending) = {}
            /\ \A k \in pipes[sig].failed :
                  /\ k \in 1..Len(pipes[sig].exported)
                  /\ \A m \in (1..Len(pipes[sig].exported)) \ {k} :
                        Range(pipes[sig].exported[k])
                            \cap Range(pipes[sig].exported[m]) = {}

\* the export of spans 1 and 2 failed; they are gone
C23_Witness ==
    /\ pipes["trace"].failed = {1}
    /\ pipes["trace"].exported = <<<<1, 2>>>>
    /\ pipes["trace"].queue = <<>>
    /\ pipes["trace"].batch = <<>>
    /\ pipes["trace"].emitted = 2

\* C24: the aggregation of every reader of the provider holds the sum
\* recorded on the counter; a collection reports that sum and leaves the
\* aggregation and the reports of the other reader as they are
C24_ReadersReportTheTotal ==
    /\ [](\A r \in Range(tp.readers) : metrics.agg[r] = metrics.recorded)
    /\ [][\A r \in ReaderKinds :
            metrics'.reported[r] # metrics.reported[r] =>
                /\ metrics'.reported[r] = Append(metrics.reported[r], metrics.recorded)
                /\ metrics'.recorded = metrics.recorded
                /\ \A q \in ReaderKinds \ {r} :
                      /\ metrics'.reported[q] = metrics.reported[q]
                      /\ metrics'.agg[q] = metrics.agg[q]]_vars

\* a scrape at 1, then a scrape and a periodic export at 2
C24_Witness ==
    /\ metrics.reported["prometheus"] = <<1, 2>>
    /\ metrics.reported["periodic"] = <<2>>
    /\ metrics.exports = <<"timer">>

\* C25: once the trace hook has been invoked, every span that was accepted
\* has been handed to the exporter, the queue and the batch are empty and
\* nothing is exported any more; once the metric hook has been invoked, the
\* periodic reader has made a last export of the sum recorded and neither
\* its timer nor anything else collects or exports any more
C25_FinalFlushThenSilence ==
    /\ [](/\ hookCalls["trace"] > 0 =>
                /\ pipes["trace"].queue = <<>>
                /\ pipes["trace"].batch = <<>>
                /\ Range(Flatten(pipes["trace"].exported)) =
                      (1..pipes["trace"].emitted) \ pipes["trace"].dropped
          /\ hookCalls["metric"] > 0 =>
                /\ metrics.exports # <<>>
                /\ metrics.exports[Len(metrics.exports)] = "shutdown"
                /\ metrics.reported["periodic"][Len(metrics.reported["periodic"])]
                      = metrics.recorded)
    /\ [][/\ hookCalls["trace"] > 0 => pipes'["trace"] = pipes["trace"]
          /\ hookCalls["metric"] > 0 => metrics' = metrics]_vars

\* span 3 was still queued and the sum 2 not yet exported when Shutdown ran
C25_Witness ==
    /\ hookCalls["trace"] = 1
    /\ pipes["trace"].last = "shutdown"
    /\ pipes["trace"].exported = <<<<1, 2>>, <<3>>>>
    /\ metrics.recorded = 2
    /\ metrics.reported["periodic"] = <<1, 2>>
    /\ metrics.exports = <<"timer", "shutdown">>

\* the transport Config.InsecureMode asks for
WantedTransport == IF tp.Config.InsecureMode THEN "plaintext" ELSE "tls"

\* C26: each exporter that has been built uses plaintext when
\* Config.InsecureMode is true and secure transport when it is false
C26_InsecureModeDecidesTransport ==
    /\ tp.TracerProvider = "built" => tp.traceTransport = WantedTransport
    /\ tp.MeterProvider = "built" => tp.metricsTransport = WantedTransport
    /\ tp.LoggerProvider = "built" => tp.logsTransport = WantedTransport

\* C27: a pipeline is built only once the Resource exists, every provider
\* built is bound to tp.Resource, and once created the Resource never
\* changes, whatever is called on the handle
C27_OneResourceForAll ==
    /\ [](\A h \in Hooks :
            tp.bound[h] # <<>> => (tp.hasResource /\ tp.bound[h] = <<tp.Resource>>))
    /\ [](/\ tp.TracerProvider = "built" => tp.bound["trace"] # <<>>
          /\ tp.MeterProvider = "built" => tp.bound["metric"] # <<>>
          /\ tp.LoggerProvider = "built" => tp.bound["log"] # <<>>)
    /\ [][tp.hasResource => (tp'.hasResource /\ tp'.Resource = tp.Resource)]_vars

\* after a Shutdown call and a GetMeter call the three providers still
\* share the Resource of the bootstrap
C27_Witness ==
    /\ completed > 0
    /\ accessed.kind = "metric"
    /\ accessed.during = "after"
    /\ "service.name" \in DOMAIN tp.Resource
    /\ \A h \in Hooks : tp.bound[h] = <<tp.Resource>>

\* C28: once NewTelemetryProvider has returned the handle, no step changes
\* tp.shutdownFuncs; in particular no step of a Shutdown call and no
\* accessor call does
C28_HookListFrozenAfterBootstrap ==
    [][/\ ret.provider = "tp" => tp'.shutdownFuncs = tp.shutdownFuncs
       /\ (calls' # calls \/ hookCalls' # hookCalls \/ accessed' # accessed)
             => tp'.shutdownFuncs = tp.shutdownFuncs]_vars

\* two Shutdown calls have returned, a logger was fetched, the list is whole
C28_Witness ==
    /\ completed = 2
    /\ accessed.kind = "log"
    /\ \A h \in Hooks : hookCalls[h] = 2
    /\ tp.shutdownFuncs = <<"trace", "metric", "log">>

\* C29: the meter provider has the Prometheus reader exactly when
\* Config.EnablePrometheus is true and always has the periodic reader: two
\* readers with the toggle on, one with it off
C29_PrometheusReaderFollowsToggle ==
    tp.MeterProvider = "built" =>
        /\ ("prometheus" \in Range(tp.readers)) <=> tp.Config.EnablePrometheus
        /\ "periodic" \in Range(tp.readers)
        /\ Len(tp.readers) = IF tp.Config.EnablePrometheus THEN 2 ELSE 1

C29_Witness ==
    /\ tp.MeterProvider = "built"
    /\ ~config.isNil
    /\ ~config.EnablePrometheus
    /\ tp.readers = <<"periodic">>

\* C30: a provider is the process-wide one from the moment its step has
\* built it and stays so, also when a later step fails and the bootstrap
\* returns no handle; the global propagator is the composite one exactly when
\* the bootstrap returned a handle
C30_GlobalsFollowBuildSteps ==
    /\ [](/\ globals.TracerProvider = "tp" <=> tp.TracerProvider = "built"
          /\ globals.MeterProvider = "tp" <=> tp.MeterProvider = "built"
          /\ globals.LoggerProvider = "tp" <=> tp.LoggerProvider = "built"
          /\ globals.TextMapPropagator = "composite"
                <=> (pc = "returned" /\ ret.provider = "tp"))
    /\ [][/\ globals.TracerProvider = "tp" => globals'.TracerProvider = "tp"
          /\ globals.MeterProvider = "tp" => globals'.MeterProvider = "tp"
          /\ globals.LoggerProvider = "tp" => globals'.LoggerProvider = "tp"
          /\ globals.TextMapPropagator = "composite"
                => globals'.TextMapPropagator = "composite"]_vars

C30_Witness ==
    /\ pc = "returned"
    /\ ret.provider = "nil"
    /\ tp.TracerProvider = "built"
    /\ tp.MeterProvider # "built"
    /\ globals.TracerProvider = "tp"
    /\ globals.MeterProvider = "default"
    /\ globals.TextMapPropagator = "default"

====
